---- MODULE Spec2Model ----
(***************************************************************************)
(* A model of the fastapi_lifecycle package: lifecycle decorators          *)
(* (deprecated / sunset / versioned), configuration validation, header     *)
(* formatting and injection, and the three response-time triggers          *)
(* (VersioningMiddleware, LifecycleAPIRoute, inject_lifecycle_headers).    *)
(*                                                                         *)
(* Text is modelled as a sequence of one-character strings so that the     *)
(* formatting and parsing functions compute on characters as the code      *)
(* does.  A Python value is a tagged record:                               *)
(*    [t |-> "none"]                       None                            *)
(*    [t |-> "str", s |-> <<chars>>]       a str                           *)
(*    [t |-> "int", n |-> i]               an int                          *)
(*    [t |-> "datetime", y, mo, d, h, mi, sec, off]   a datetime           *)
(* A configuration dict is [isdict |-> TRUE, items |-> f] where f is a     *)
(* function whose DOMAIN is the set of keys of the dict.                   *)
(***************************************************************************)
EXTENDS Integers, Sequences, FiniteSets, TLC

(***************************************************************************)
(* schemas.py: ConfigKeys                                                  *)
(***************************************************************************)
DEPRECATED_AT == "deprecated_at"
SUNSET_AT == "sunset_at"
MIGRATION_URL == "migration_url"
REPLACEMENT == "replacement"
REASON == "reason"
VERSION == "version"

ConfigKeys == {DEPRECATED_AT, SUNSET_AT, MIGRATION_URL, REPLACEMENT, REASON, VERSION}

(***************************************************************************)
(* Python values                                                           *)
(***************************************************************************)
None == [t |-> "none"]

Str(chars) == [t |-> "str", s |-> chars]

IntVal(i) == [t |-> "int", n |-> i]

DateTime(y, mo, d, h, mi, sec, off) ==
    [t |-> "datetime", y |-> y, mo |-> mo, d |-> d, h |-> h, mi |-> mi,
     sec |-> sec, off |-> off]

\* bool(value): Python truthiness of a value.
Truthy(v) ==
    CASE v.t = "none" -> FALSE
      [] v.t = "str" -> Len(v.s) > 0
      [] v.t = "int" -> v.n # 0
      [] v.t = "datetime" -> TRUE

\* dict.get(key): the value under key, None when the key is missing.
DictGet(items, key) == IF key \in DOMAIN items THEN items[key] ELSE None

(***************************************************************************)
(* Characters and decimal numbers                                          *)
(***************************************************************************)
DigitChars == <<"0", "1", "2", "3", "4", "5", "6", "7", "8", "9">>

IsDigit(c) == \E i \in 1..10 : DigitChars[i] = c

DigitVal(c) == (CHOOSE i \in 1..10 : DigitChars[i] = c) - 1

AllDigits(s) == \A i \in 1..Len(s) : IsDigit(s[i])

RECURSIVE NumVal(_)
NumVal(s) ==
    IF Len(s) = 0 THEN 0
    ELSE 10 * NumVal(SubSeq(s, 1, Len(s) - 1)) + DigitVal(s[Len(s)])

RECURSIVE Decimal(_)
Decimal(i) ==
    IF i < 10 THEN <<DigitChars[i + 1]>>
    ELSE Decimal(i \div 10) \o <<DigitChars[(i % 10) + 1]>>

\* "%02d" and "%04d" of strftime.
Pad2(i) == IF i < 10 THEN <<"0">> \o Decimal(i) ELSE Decimal(i)

Pad4(i) ==
    IF i < 10 THEN <<"0", "0", "0">> \o Decimal(i)
    ELSE IF i < 100 THEN <<"0", "0">> \o Decimal(i)
    ELSE IF i < 1000 THEN <<"0">> \o Decimal(i)
    ELSE Decimal(i)

\* str(value) for the values a configuration field can hold.
PyStr(v) ==
    CASE v.t = "str" -> v.s
      [] v.t = "int" -> IF v.n < 0 THEN <<"-">> \o Decimal(0 - v.n) ELSE Decimal(v.n)
      [] v.t = "none" -> <<"N", "o", "n", "e">>
      [] v.t = "datetime" ->
            Pad4(v.y) \o <<"-">> \o Pad2(v.mo) \o <<"-">> \o Pad2(v.d) \o <<" ">>
            \o Pad2(v.h) \o <<":">> \o Pad2(v.mi) \o <<":">> \o Pad2(v.sec)

(***************************************************************************)
(* headers.py: VersioningHeaders.format_http_date                          *)
(***************************************************************************)
\* str.replace("Z", "+00:00")
RECURSIVE ReplaceZ(_)
ReplaceZ(s) ==
    IF Len(s) = 0 THEN <<>>
    ELSE (IF Head(s) = "Z" THEN <<"+", "0", "0", ":", "0", "0">> ELSE <<Head(s)>>)
         \o ReplaceZ(Tail(s))

IsLeap(y) == (y % 4 = 0 /\ y % 100 # 0) \/ y % 400 = 0

DaysInMonth(y, mo) ==
    IF mo = 2 THEN (IF IsLeap(y) THEN 29 ELSE 28)
    ELSE IF mo \in {4, 6, 9, 11} THEN 30 ELSE 31

ParseError == [ok |-> FALSE, exc |-> "ValueError"]

\* The calendar date YYYY-MM-DD at the head of an ISO-8601 text.
DateShapeOk(s) ==
    /\ Len(s) >= 10
    /\ AllDigits(SubSeq(s, 1, 4)) /\ s[5] = "-"
    /\ AllDigits(SubSeq(s, 6, 7)) /\ s[8] = "-"
    /\ AllDigits(SubSeq(s, 9, 10))

\* The time hh:mm:ss in positions 12..19 (position 11 is the separator,
\* any single character).
TimeShapeOk(s) ==
    /\ Len(s) >= 19
    /\ AllDigits(SubSeq(s, 12, 13)) /\ s[14] = ":"
    /\ AllDigits(SubSeq(s, 15, 16)) /\ s[17] = ":"
    /\ AllDigits(SubSeq(s, 18, 19))

\* The UTC offset +hh:mm or -hh:mm in positions 20..25.
OffsetShapeOk(s) ==
    /\ Len(s) = 25
    /\ s[20] \in {"+", "-"}
    /\ AllDigits(SubSeq(s, 21, 22)) /\ s[23] = ":"
    /\ AllDigits(SubSeq(s, 24, 25))

\* dateutil.parser.isoparse on the extended forms YYYY-MM-DD,
\* YYYY-MM-DDThh:mm:ss and YYYY-MM-DDThh:mm:ss(+|-)hh:mm; every other text
\* modelled here is a ValueError.  off is <<minutes>> for an aware datetime
\* and << >> for a naive one.
Naive == << >>

isoparse(s) ==
    IF ~DateShapeOk(s) THEN ParseError
    ELSE
      LET y == NumVal(SubSeq(s, 1, 4))
          mo == NumVal(SubSeq(s, 6, 7))
          d == NumVal(SubSeq(s, 9, 10))
          dateOk == y >= 1 /\ mo \in 1..12 /\ d >= 1 /\ d <= DaysInMonth(y, mo)
      IN
      IF ~dateOk THEN ParseError
      ELSE IF Len(s) = 10 THEN
          [ok |-> TRUE, val |-> DateTime(y, mo, d, 0, 0, 0, Naive)]
      ELSE IF ~TimeShapeOk(s) THEN ParseError
      ELSE
        LET h == NumVal(SubSeq(s, 12, 13))
            mi == NumVal(SubSeq(s, 15, 16))
            sec == NumVal(SubSeq(s, 18, 19))
            timeOk == h <= 23 /\ mi <= 59 /\ sec <= 59
        IN
        IF ~timeOk THEN ParseError
        ELSE IF Len(s) = 19 THEN
            [ok |-> TRUE, val |-> DateTime(y, mo, d, h, mi, sec, Naive)]
        ELSE IF ~OffsetShapeOk(s) THEN ParseError
        ELSE
          LET oh == NumVal(SubSeq(s, 21, 22))
              om == NumVal(SubSeq(s, 24, 25))
              sign == IF s[20] = "-" THEN 0 - 1 ELSE 1
          IN
          IF oh > 23 \/ om > 59 THEN ParseError
          ELSE [ok |-> TRUE,
                val |-> DateTime(y, mo, d, h, mi, sec, <<sign * (60 * oh + om)>>)]

WeekdayNames ==
    <<<<"S", "u", "n">>, <<"M", "o", "n">>, <<"T", "u", "e">>, <<"W", "e", "d">>,
      <<"T", "h", "u">>, <<"F", "r", "i">>, <<"S", "a", "t">>>>

MonthNames ==
    <<<<"J", "a", "n">>, <<"F", "e", "b">>, <<"M", "a", "r">>, <<"A", "p", "r">>,
      <<"M", "a", "y">>, <<"J", "u", "n">>, <<"J", "u", "l">>, <<"A", "u", "g">>,
      <<"S", "e", "p">>, <<"O", "c", "t">>, <<"N", "o", "v">>, <<"D", "e", "c">>>>

\* Day of the week of a proleptic Gregorian date, 0 = Sunday.
Weekday(y, mo, d) ==
    LET t == <<0, 3, 2, 5, 0, 3, 5, 1, 4, 6, 2, 4>>
        yy == IF mo < 3 THEN y - 1 ELSE y
    IN (yy + (yy \div 4) - (yy \div 100) + (yy \div 400) + t[mo] + d) % 7

\* datetime.strftime("%a, %d %b %Y %H:%M:%S GMT"): the wall-clock fields of
\* the value, whatever its offset.
strftime(dt) ==
    WeekdayNames[Weekday(dt.y, dt.mo, dt.d) + 1] \o <<",", " ">>
    \o Pad2(dt.d) \o <<" ">> \o MonthNames[dt.mo] \o <<" ">> \o Pad4(dt.y)
    \o <<" ">> \o Pad2(dt.h) \o <<":">> \o Pad2(dt.mi) \o <<":">> \o Pad2(dt.sec)
    \o <<" ", "G", "M", "T">>

\* The result is [ok |-> TRUE, val |-> text] or [ok |-> FALSE, exc |-> name of
\* the exception raised].  A value that is neither str nor datetime has no
\* strftime attribute.
FormatParsed(p) == IF p.ok THEN [ok |-> TRUE, val |-> strftime(p.val)] ELSE p

format_http_date(dt) ==
    IF dt.t = "str" THEN FormatParsed(isoparse(ReplaceZ(dt.s)))
    ELSE IF dt.t = "datetime" THEN [ok |-> TRUE, val |-> strftime(dt)]
    ELSE [ok |-> FALSE, exc |-> "AttributeError"]

(***************************************************************************)
(* headers.py: VersioningHeaders.create_link_header with rel="deprecation" *)
(***************************************************************************)
create_link_header(url) ==
    <<"<">> \o url \o
    <<">", ";", " ", "r", "e", "l", "=", "\"", "d", "e", "p", "r", "e", "c", "a",
      "t", "i", "o", "n", "\"">>

(***************************************************************************)
(* Response headers: a function from the header names present on the       *)
(* response (lower case, as Starlette's MutableHeaders compares them) to   *)
(* their values.  response.headers[name] = value replaces or adds.         *)
(***************************************************************************)
H_DEPRECATION == "deprecation"
H_SUNSET == "sunset"
H_LINK == "link"
H_VERSION == "x-api-version"
H_REPLACEMENT == "x-api-replacement"
H_REASON == "x-api-deprecation-reason"

LifecycleHeaders == {H_DEPRECATION, H_SUNSET, H_LINK, H_VERSION, H_REPLACEMENT, H_REASON}

SetHeader(headers, name, value) ==
    [n \in (DOMAIN headers) \cup {name} |-> IF n = name THEN value ELSE headers[n]]

(***************************************************************************)
(* Configuration dicts                                                     *)
(***************************************************************************)
Dict(items) == [isdict |-> TRUE, items |-> items]

\* A value that is not a dict (None).
NotADict == [isdict |-> FALSE]

EmptyItems == [k \in {} |-> None]

\* bool(config)
ConfigTruthy(config) == config.isdict /\ DOMAIN config.items # {}

(***************************************************************************)
(* utils.py: inject_headers.  The result is the headers of the response    *)
(* after the call and the exception the call raised ("none" if it          *)
(* returned).  The six assignments run in the order of the code; one that  *)
(* raises leaves the earlier ones in place and skips the later ones.       *)
(***************************************************************************)
Returned(headers) == [headers |-> headers, exc |-> "none"]

\* response.headers[name] = <the formatted date f>, or the formatter raised.
SetFormatted(headers, name, f) ==
    IF f.ok THEN Returned(SetHeader(headers, name, f.val))
    ELSE [headers |-> headers, exc |-> f.exc]

InjectDateField(r, items, key, name) ==
    IF r.exc # "none" THEN r
    ELSE IF Truthy(DictGet(items, key))
         THEN SetFormatted(r.headers, name, format_http_date(items[key]))
         ELSE r

\* Mutant: the link is added to a Link header already on the response.
InjectLinkFieldAppend(r, items) ==
    IF r.exc # "none" THEN r
    ELSE IF Truthy(DictGet(items, MIGRATION_URL)) THEN
        Returned(SetHeader(r.headers, H_LINK,
                           (IF H_LINK \in DOMAIN r.headers
                            THEN r.headers[H_LINK] \o <<",", " ">> ELSE << >>)
                           \o create_link_header(PyStr(items[MIGRATION_URL]))))
    ELSE r

\* Mutant: the Link header carries the bare URL.
InjectLinkFieldBare(r, items) ==
    IF r.exc # "none" THEN r
    ELSE IF Truthy(DictGet(items, MIGRATION_URL)) THEN
        Returned(SetHeader(r.headers, H_LINK, PyStr(items[MIGRATION_URL])))
    ELSE r

InjectLinkField(r, items) ==
    IF r.exc # "none" THEN r
    ELSE IF Truthy(DictGet(items, MIGRATION_URL)) THEN
        Returned(SetHeader(r.headers, H_LINK,
                           create_link_header(PyStr(items[MIGRATION_URL]))))
    ELSE r

\* Mutant: the gate is "is not None" instead of truthiness.
InjectStrFieldNonNull(r, items, key, name) ==
    IF r.exc # "none" THEN r
    ELSE IF DictGet(items, key) # None THEN
        Returned(SetHeader(r.headers, name, PyStr(items[key])))
    ELSE r

InjectStrField(r, items, key, name) ==
    IF r.exc # "none" THEN r
    ELSE IF Truthy(DictGet(items, key)) THEN
        Returned(SetHeader(r.headers, name, PyStr(items[key])))
    ELSE r

InjectFields(headers, i) ==
    InjectStrField(
      InjectStrField(
        InjectStrField(
          InjectLinkField(
            InjectDateField(
              InjectDateField(Returned(headers), i, DEPRECATED_AT, H_DEPRECATION),
              i, SUNSET_AT, H_SUNSET),
            i),
          i, VERSION, H_VERSION),
        i, REPLACEMENT, H_REPLACEMENT),
      i, REASON, H_REASON)

inject_headers(headers, config) ==
    IF ~ConfigTruthy(config) THEN Returned(headers)
    ELSE InjectFields(headers, config.items)

(***************************************************************************)
(* utils.py: validate_config.  The result is [exc |-> "none"] when the     *)
(* call returns, and otherwise the exception raised and the field named    *)
(* in its message ("config" for the not-a-dictionary message).  ValueError *)
(* and TypeError of the formatter are caught and raised again as           *)
(* ValueError; any other exception of the formatter propagates.            *)
(***************************************************************************)
Accepted == [exc |-> "none", field |-> "none"]

\* try: format_http_date(...) except (ValueError, TypeError): raise ValueError
TryFormat(f, key) ==
    IF f.ok THEN Accepted
    ELSE IF f.exc \in {"ValueError", "TypeError"}
         THEN [exc |-> "ValueError", field |-> key]
         ELSE [exc |-> f.exc, field |-> "none"]

ValidateDateField(r, items, key) ==
    IF r.exc # "none" THEN r
    ELSE IF key \in DOMAIN items /\ items[key] # None
         THEN TryFormat(format_http_date(items[key]), key)
         ELSE r

\* Mutant: nothing is validated.
validate_config_nothing(config) == Accepted

validate_config(config) ==
    IF ~config.isdict THEN [exc |-> "ValueError", field |-> "config"]
    ELSE ValidateDateField(ValidateDateField(Accepted, config.items, DEPRECATED_AT),
                           config.items, SUNSET_AT)

(***************************************************************************)
(* Bounds of the model                                                     *)
(***************************************************************************)
\* Function objects: the plain handler and the wrappers made from it.
MaxFuncs == 4

\* VersioningMiddleware entries in the application's middleware list.
MaxMiddleware == 1

\* Routes registered on the application.
MaxRoutes == 1

\* Requests served.
MaxRequests == 1

\* Requests in flight at the same time in the concurrent specification.
MaxConcurrent == 2

(***************************************************************************)
(* Texts and configuration records the model draws from                    *)
(***************************************************************************)
T_2024_01_15_Z ==
    <<"2", "0", "2", "4", "-", "0", "1", "-", "1", "5", "T", "0", "0", ":", "0",
      "0", ":", "0", "0", "Z">>

T_2024_06_15_Z ==
    <<"2", "0", "2", "4", "-", "0", "6", "-", "1", "5", "T", "0", "0", ":", "0",
      "0", ":", "0", "0", "Z">>

T_2015_10_21_OFFSET ==
    <<"2", "0", "1", "5", "-", "1", "0", "-", "2", "1", "T", "0", "7", ":", "2",
      "8", ":", "0", "0", "+", "0", "2", ":", "0", "0">>

T_2024_02_29 == <<"2", "0", "2", "4", "-", "0", "2", "-", "2", "9">>

T_NOT_A_DATE == <<"n", "o", "t", "-", "a", "-", "d", "a", "t", "e">>

T_MONTH_13 ==
    <<"2", "0", "2", "4", "-", "1", "3", "-", "0", "1", "T", "0", "0", ":", "0",
      "0", ":", "0", "0", "Z">>

T_EMPTY == << >>

T_URL == <<"h", "t", "t", "p", "s", ":", "/", "/", "a", ".", "b", "/", "m">>

T_V1 == <<"1", ".", "0">>

T_REPLACEMENT == <<"G", "E", "T", " ", "/", "v", "2">>

T_REASON == <<"o", "l", "d">>

T_REASON2 == <<"n", "e", "w">>

T_JSON == <<"j", "s", "o", "n">>

T_STALE == <<"<", "x", ">">>

D_2025_12_31 == DateTime(2025, 12, 31, 23, 59, 59, Naive)

\* The dict with the given keys; vals maps each key to its value.
Items(keys, vals) == [k \in keys |-> vals[k]]

(***************************************************************************)
(* utils.py: get_endpoint_configs.  A function object is                   *)
(*   [attrs |-> the function's __dict__ restricted to the config           *)
(*              attributes, wrapped |-> the function it wraps (0: none),   *)
(*    coroutine |-> inspect.iscoroutinefunction,                           *)
(*    response_param |-> a Response object is among its call arguments,    *)
(*    dep |-> how it uses the inject_lifecycle_headers dependency,         *)
(*    config_attr, config |-> the closure cells of a wrapper ("none" and   *)
(*              NotADict for a plain function)]                            *)
(* The result lists the kinds in the order of config_attrs.                *)
(***************************************************************************)
Kinds == <<"deprecated", "sunset", "versioned">>

KindSet == {Kinds[i] : i \in 1..Len(Kinds)}

ConfigAttr(kind) ==
    CASE kind = "deprecated" -> "_deprecated_config"
      [] kind = "sunset" -> "_sunset_config"
      [] kind = "versioned" -> "_versioned_config"

HasAttr(fobj, attr) == attr \in DOMAIN fobj.attrs

RECURSIVE ConfigsFrom(_, _)
ConfigsFrom(fobj, i) ==
    IF i > Len(Kinds) THEN << >>
    ELSE (IF HasAttr(fobj, ConfigAttr(Kinds[i]))
          THEN <<[kind |-> Kinds[i], config |-> fobj.attrs[ConfigAttr(Kinds[i])]]>>
          ELSE << >>) \o ConfigsFrom(fobj, i + 1)

\* Mutant: the records are listed in the reverse order of config_attrs.
RECURSIVE ConfigsReversed(_, _)
ConfigsReversed(fobj, i) ==
    IF i = 0 THEN << >>
    ELSE (IF HasAttr(fobj, ConfigAttr(Kinds[i]))
          THEN <<[kind |-> Kinds[i], config |-> fobj.attrs[ConfigAttr(Kinds[i])]]>>
          ELSE << >>) \o ConfigsReversed(fobj, i - 1)

get_endpoint_configs_reversed(fobj) == ConfigsReversed(fobj, Len(Kinds))

\* Mutant: a function without any record gets a default version record.
get_endpoint_configs_default(fobj) ==
    IF ConfigsFrom(fobj, 1) = << >>
    THEN <<[kind |-> "versioned",
            config |-> Dict([k \in {VERSION} |-> Str(<<"1">>)])]>>
    ELSE ConfigsFrom(fobj, 1)

get_endpoint_configs(fobj) == ConfigsFrom(fobj, 1)

\* Mutant: only the first record is injected.
InjectFirstOnly(r, configs) ==
    IF Len(configs) = 0 \/ r.exc # "none" THEN r
    ELSE inject_headers(r.headers, Head(configs).config)

\* for config in configs.values(): inject_headers(response, config)
RECURSIVE InjectEach(_, _)
InjectEach(r, configs) ==
    IF Len(configs) = 0 \/ r.exc # "none" THEN r
    ELSE InjectEach(inject_headers(r.headers, Head(configs).config), Tail(configs))

(***************************************************************************)
(* A response being produced for a request: its headers, the exception     *)
(* that ended its processing ("none" so far), the log of what ran for it   *)
(* (who looked up records, on which function object; which body ran), and  *)
(* the value the last call made for it returned.                           *)
(***************************************************************************)
Logged(r, resp, entry) ==
    [headers |-> r.headers, exc |-> r.exc, log |-> Append(resp.log, entry),
     result |-> resp.result]

LookupAndInject(resp, F, f, who) ==
    Logged(InjectEach(Returned(resp.headers), get_endpoint_configs(F[f])),
           resp, [by |-> who, func |-> f])

(***************************************************************************)
(* decorators.py: the wrappers.  Calling a wrapper calls the function it   *)
(* wraps and then _handle_response_headers with that function; a plain     *)
(* function just runs its body.  A Response object is found among the      *)
(* arguments exactly when the handler declares a Response parameter (the   *)
(* wrapper is called with the arguments of the wrapped signature).         *)
(***************************************************************************)
find_response_object(fobj) == fobj.response_param

\* Mutant: the wrapper injects whether or not it found a Response object.
handle_response_headers_always(resp, F, func) ==
    LookupAndInject(resp, F, func, "wrapper")

handle_response_headers(resp, F, func) ==
    IF find_response_object(F[func]) THEN LookupAndInject(resp, F, func, "wrapper")
    ELSE resp

\* The wrapper after its inner call: an exception of the inner call
\* propagates, a result goes through _handle_response_headers.
AfterInner(result, F, func) ==
    IF result.exc # "none" THEN result ELSE handle_response_headers(result, F, func)

\* What a call returned: nothing yet, the value the body of the plain
\* function f returned, or the coroutine object of f, not awaited yet.
NoResult == [t |-> "none", of |-> 0]

Value(f) == [t |-> "value", of |-> f]

Coroutine(f) == [t |-> "coroutine", of |-> f]

WithResult(resp, result) == [resp EXCEPT !.result = result]

\* The body of a plain function runs and returns its value.
PlainBody(resp, f) ==
    WithResult(Logged(resp, resp, [by |-> "body", func |-> f]), Value(f))

RECURSIVE Invoke(_, _, _)
RECURSIVE Await(_, _)
RECURSIVE RunBody(_, _, _)
\* f(*args, **kwargs): calling a coroutine function runs nothing and returns
\* a coroutine object; calling any other function runs its body.
Invoke(resp, F, f) ==
    IF F[f].coroutine THEN WithResult(resp, Coroutine(f)) ELSE RunBody(resp, F, f)

\* await <what the call returned>: a coroutine object runs its body to
\* completion; anything else cannot be awaited.
Await(resp, F) ==
    IF resp.exc # "none" THEN resp
    ELSE IF resp.result.t = "coroutine" THEN RunBody(resp, F, resp.result.of)
    ELSE [resp EXCEPT !.exc = "TypeError"]

\* The body of f: of a plain function; of async_wrapper,
\* result = await func(...); of sync_wrapper, result = func(...); both then
\* return _handle_response_headers(result, args, kwargs, func).
RunBody(resp, F, f) ==
    IF F[f].wrapped = 0 THEN PlainBody(resp, f)
    ELSE IF F[f].coroutine
    THEN AfterInner(Await(Invoke(resp, F, F[f].wrapped), F), F, F[f].wrapped)
    ELSE AfterInner(Invoke(resp, F, F[f].wrapped), F, F[f].wrapped)

\* The route runs its endpoint function: awaited if it is a coroutine
\* function, called otherwise.
CallFunction(resp, F, f) ==
    IF F[f].coroutine THEN Await(Invoke(resp, F, f), F) ELSE Invoke(resp, F, f)

(***************************************************************************)
(* dependencies.py: inject_lifecycle_headers(response, endpoint_func);     *)
(* endpoint_func = 0 is None, the default.                                 *)
(***************************************************************************)
inject_lifecycle_headers(resp, F, endpoint_func) ==
    IF endpoint_func # 0 THEN LookupAndInject(resp, F, endpoint_func, "dependency")
    ELSE resp

\* The endpoint of a route as the serving infrastructure runs it: the
\* dependencies first, then the endpoint function.  A handler that opts in
\* with dep = "ref" passes the route's endpoint as endpoint_func, one with
\* dep = "noref" passes nothing (the default None).
DepModes == {"none", "noref", "ref"}

solve_dependencies(resp, F, endpoint) ==
    IF F[endpoint].dep = "none" THEN resp
    ELSE inject_lifecycle_headers(resp, F,
                                  IF F[endpoint].dep = "ref" THEN endpoint ELSE 0)

\* A step of the pipeline runs unless an earlier one raised.
CallUnlessRaised(r, F, endpoint) ==
    IF r.exc # "none" THEN r ELSE CallFunction(r, F, endpoint)

RunEndpoint(resp, F, endpoint) ==
    CallUnlessRaised(solve_dependencies(resp, F, endpoint), F, endpoint)

(***************************************************************************)
(* route.py: LifecycleAPIRoute.get_route_handler, the part of              *)
(* custom_route_handler after the original route handler returned.         *)
(***************************************************************************)
custom_route_handler(resp, F, route) ==
    LookupAndInject(resp, F, route.endpoint, "route")

(***************************************************************************)
(* middleware.py: VersioningMiddleware.dispatch, the part after call_next  *)
(* returned.  route = 0 is a request scope without "route"; a route with   *)
(* endpoint = 0 is a route object without an endpoint attribute.           *)
(***************************************************************************)
NoRoute == [endpoint |-> 0, route_class |-> "none"]

\* Mutant: without a route the middleware falls back to the function object
\* defined last.
dispatch_fallback(resp, F, route) ==
    IF route # NoRoute /\ route.endpoint # 0
    THEN LookupAndInject(resp, F, route.endpoint, "middleware")
    ELSE LookupAndInject(resp, F, Len(F), "middleware")

dispatch(resp, F, route) ==
    IF route # NoRoute /\ route.endpoint # 0
    THEN LookupAndInject(resp, F, route.endpoint, "middleware")
    ELSE resp

(***************************************************************************)
(* middleware.py: setup_versioning.  The result is the application after   *)
(* the call and the exception raised.                                      *)
(***************************************************************************)
VersioningMiddleware == "VersioningMiddleware"

APIRoute == "APIRoute"

LifecycleAPIRoute == "LifecycleAPIRoute"

Methods == {"middleware", "route_class", "manual", "bogus", ""}

\* Mutant: an unknown method falls back to the default, "middleware".
setup_versioning_lenient(a, method) ==
    IF method = "route_class" THEN
        [app |-> [a EXCEPT !.route_class = LifecycleAPIRoute], exc |-> "none"]
    ELSE IF method = "manual" THEN [app |-> a, exc |-> "none"]
    ELSE [app |-> [a EXCEPT !.user_middleware = <<VersioningMiddleware>> \o @],
          exc |-> "none"]

setup_versioning(a, method) ==
    IF method = "middleware" THEN
        [app |-> [a EXCEPT !.user_middleware = <<VersioningMiddleware>> \o @],
         exc |-> "none"]
    ELSE IF method = "route_class" THEN
        [app |-> [a EXCEPT !.route_class = LifecycleAPIRoute], exc |-> "none"]
    ELSE IF method = "manual" THEN [app |-> a, exc |-> "none"]
    ELSE [app |-> a, exc |-> "ValueError"]

\* route.py: setup_versioning_with_route_class
setup_versioning_with_route_class(a) == [a EXCEPT !.route_class = LifecycleAPIRoute]

(***************************************************************************)
(* decorators.py: _create_lifecycle_decorator(config_attr)(config)(func).  *)
(* The result is the function objects after the call and the exception.    *)
(* functools.wraps copies the __dict__ of func, after the setattr, into    *)
(* the wrapper, and the wrapper keeps the signature of func.               *)
(***************************************************************************)
SetAttr(fobj, attr, value) ==
    [fobj EXCEPT !.attrs = [a \in (DOMAIN fobj.attrs) \cup {attr} |->
                               IF a = attr THEN value ELSE fobj.attrs[a]]]

\* Mutant: every wrapper is the synchronous one.
WrapperAlwaysSync(fobj) == FALSE

\* async_wrapper if inspect.iscoroutinefunction(func) else sync_wrapper:
\* whether the wrapper made for fobj is a coroutine function.
WrapperIsAsync(fobj) == fobj.coroutine

\* Mutant: the wrapper does not get the __dict__ of the function it wraps.
WrapsWithoutDict(fobj, func, config_attr, config) ==
    [attrs |-> EmptyItems, wrapped |-> func, coroutine |-> WrapperIsAsync(fobj),
     response_param |-> fobj.response_param, dep |-> fobj.dep,
     config_attr |-> config_attr, config |-> config]

Wraps(fobj, func, config_attr, config) ==
    [attrs |-> fobj.attrs, wrapped |-> func, coroutine |-> WrapperIsAsync(fobj),
     response_param |-> fobj.response_param, dep |-> fobj.dep,
     config_attr |-> config_attr, config |-> config]

\* setattr(func, config_attr, config), then the wrapper is made and returned.
StoreAndWrap(F, config_attr, config, func) ==
    Append([F EXCEPT ![func] = SetAttr(@, config_attr, config)],
           Wraps(SetAttr(F[func], config_attr, config), func, config_attr, config))

\* Mutant: the record is stored before it is validated.
DecoratedStoreFirst(v, F, config_attr, config, func) ==
    IF v.exc # "none"
    THEN [funcs |-> [F EXCEPT ![func] = SetAttr(@, config_attr, config)],
          exc |-> v.exc, field |-> v.field]
    ELSE [funcs |-> StoreAndWrap(F, config_attr, config, func),
          exc |-> "none", field |-> "none"]

Decorated(v, F, config_attr, config, func) ==
    IF v.exc # "none" THEN [funcs |-> F, exc |-> v.exc, field |-> v.field]
    ELSE [funcs |-> StoreAndWrap(F, config_attr, config, func),
          exc |-> "none", field |-> "none"]

lifecycle_decorator(F, config_attr, config, func) ==
    Decorated(validate_config(config), F, config_attr, config, func)

(***************************************************************************)
(* The configuration records given to the decorators, per kind.            *)
(***************************************************************************)
C_DEP ==
    Dict(Items({DEPRECATED_AT, SUNSET_AT, REASON},
               [k \in ConfigKeys |->
                  CASE k = DEPRECATED_AT -> Str(T_2024_01_15_Z)
                    [] k = SUNSET_AT -> Str(T_2015_10_21_OFFSET)
                    [] k = REASON -> Str(T_REASON)
                    [] OTHER -> None]))

C_DEP2 ==
    Dict(Items({DEPRECATED_AT, REPLACEMENT},
               [k \in ConfigKeys |->
                  CASE k = DEPRECATED_AT -> Str(T_2024_02_29)
                    [] k = REPLACEMENT -> Str(T_REPLACEMENT)
                    [] OTHER -> None]))

C_SUN ==
    Dict(Items({SUNSET_AT, MIGRATION_URL},
               [k \in ConfigKeys |->
                  CASE k = SUNSET_AT -> Str(T_2024_06_15_Z)
                    [] k = MIGRATION_URL -> Str(T_URL)
                    [] OTHER -> None]))

C_VER ==
    Dict(Items({VERSION, SUNSET_AT, REASON},
               [k \in ConfigKeys |->
                  CASE k = VERSION -> Str(T_V1)
                    [] k = SUNSET_AT -> D_2025_12_31
                    [] k = REASON -> Str(T_REASON2)
                    [] OTHER -> None]))

C_FALSY ==
    Dict(Items({VERSION, REPLACEMENT, DEPRECATED_AT},
               [k \in ConfigKeys |->
                  CASE k = VERSION -> Str(T_EMPTY)
                    [] OTHER -> None]))

C_BAD_DEP ==
    Dict(Items({DEPRECATED_AT, REASON},
               [k \in ConfigKeys |->
                  CASE k = DEPRECATED_AT -> Str(T_NOT_A_DATE)
                    [] k = REASON -> Str(T_REASON)
                    [] OTHER -> None]))

C_BAD_SUN ==
    Dict(Items({DEPRECATED_AT, SUNSET_AT},
               [k \in ConfigKeys |->
                  CASE k = DEPRECATED_AT -> Str(T_2024_01_15_Z)
                    [] k = SUNSET_AT -> Str(T_EMPTY)
                    [] OTHER -> None]))

C_INT ==
    Dict(Items({DEPRECATED_AT},
               [k \in ConfigKeys |-> IntVal(5)]))

ConfigPool(kind) ==
    (CASE kind = "deprecated" -> {C_DEP, C_DEP2, C_BAD_DEP}
       [] kind = "sunset" -> {C_SUN, C_BAD_SUN, C_INT}
       [] kind = "versioned" -> {C_VER, C_FALSY, NotADict})

\* Headers a response carries before any injection.
BaseHeaders ==
    {[n \in {"content-type"} |-> T_JSON],
     [n \in {"content-type", H_LINK} |-> IF n = H_LINK THEN T_STALE ELSE T_JSON]}

\* The plain handlers: (coroutine, response_param, dep).
PlainFunction(coroutine, response_param, dep) ==
    [attrs |-> EmptyItems, wrapped |-> 0, coroutine |-> coroutine,
     response_param |-> response_param, dep |-> dep,
     config_attr |-> "none", config |-> NotADict]

Handlers ==
    {PlainFunction(TRUE, FALSE, "none"), PlainFunction(FALSE, TRUE, "none"),
     PlainFunction(TRUE, FALSE, "noref"), PlainFunction(TRUE, TRUE, "ref")}

(***************************************************************************)
(* State                                                                   *)
(***************************************************************************)
VARIABLES
    funcs,   \* the function objects, by identity 1..Len(funcs)
    app,     \* the application: user_middleware and router.route_class
    routes,  \* the registered routes: endpoint and the route class used
    phase,   \* "define" while handlers are defined, then "serve"
    reqs,    \* the requests, each with its position in the serving pipeline
    raised,  \* the exception that ended the definition phase, if any
    call     \* a direct call of validate_config / inject_headers

vars == <<funcs, app, routes, phase, reqs, raised, call>>

FuncIds == 1..Len(funcs)

RequestIds == 1..MaxRequests

NoResponse == [headers |-> EmptyItems, exc |-> "none", log |-> << >>, result |-> NoResult]

IdleRequest ==
    [pc |-> "idle", route |-> NoRoute, base |-> EmptyItems, resp |-> NoResponse,
     pending |-> 0]

NoCall ==
    [pc |-> "none", config |-> NotADict, pre |-> EmptyItems, post |-> EmptyItems,
     valid |-> Accepted, exc |-> "none", once |-> Returned(EmptyItems)]

Init ==
    /\ funcs \in {<<h>> : h \in Handlers}
    /\ app = [user_middleware |-> << >>, route_class |-> APIRoute]
    /\ routes = << >>
    /\ phase = "define"
    /\ reqs = [r \in RequestIds |-> IdleRequest]
    /\ raised = [op |-> "none", exc |-> "none", field |-> "none"]
    /\ call = NoCall

(***************************************************************************)
(* Definition time                                                         *)
(***************************************************************************)
\* An exception raised at definition time propagates out of the module that
\* defines the handlers: the program stops before it serves anything.
Outcome(op, exc, field) ==
    /\ raised' = (IF exc = "none" THEN raised
                  ELSE [op |-> op, exc |-> exc, field |-> field])
    /\ phase' = (IF exc = "none" THEN phase ELSE "aborted")

AttachResult(res) ==
    /\ funcs' = res.funcs
    /\ Outcome("attach", res.exc, res.field)

SetupResult(res) ==
    /\ app' = res.app
    /\ Outcome("setup", res.exc, "none")

\* @deprecated(config) / @sunset(config) / @versioned(config) written above
\* the handler: the decorator is applied to the function object the
\* decorators below it produced, the outermost one so far.
Attach(kind, config) ==
    /\ phase = "define"
    /\ Len(funcs) < MaxFuncs
    /\ AttachResult(lifecycle_decorator(funcs, ConfigAttr(kind), config, Len(funcs)))
    /\ UNCHANGED <<app, routes, reqs, call>>

\* setup_versioning(app, method)
Setup(method) ==
    /\ phase = "define"
    /\ method = "middleware" => Len(app.user_middleware) < MaxMiddleware
    /\ SetupResult(setup_versioning(app, method))
    /\ UNCHANGED <<funcs, routes, reqs, call>>

\* setup_versioning_with_route_class(app)
SetupRouteClass ==
    /\ phase = "define"
    /\ app' = setup_versioning_with_route_class(app)
    /\ UNCHANGED <<funcs, routes, phase, reqs, raised, call>>

\* @app.get(path) applied to the outermost function object so far: the
\* router makes a route of its current route_class.  endpoint = 0 registers
\* a route object that has no endpoint attribute.
Register(endpoint) ==
    /\ phase = "define"
    /\ Len(routes) < MaxRoutes
    /\ routes' = Append(routes,
                        IF endpoint = 0 THEN [endpoint |-> 0, route_class |-> "Mount"]
                        ELSE [endpoint |-> endpoint, route_class |-> app.route_class])
    /\ UNCHANGED <<funcs, app, phase, reqs, raised, call>>

\* The server starts: definitions are over.
StartServing ==
    /\ phase = "define"
    /\ phase' = "serve"
    /\ UNCHANGED <<funcs, app, routes, reqs, raised, call>>

(***************************************************************************)
(* Serving a request                                                       *)
(***************************************************************************)
Advance(r, resp, pc) ==
    reqs' = [reqs EXCEPT ![r].resp = resp,
                         ![r].pc = IF resp.exc # "none" THEN "failed" ELSE pc]

AdvanceOuter(r, resp) ==
    reqs' = [reqs EXCEPT ![r].resp = resp,
                         ![r].pending = @ - 1,
                         ![r].pc = IF resp.exc # "none" THEN "failed" ELSE "outer"]

\* A request arrives and goes down through the middleware (each dispatch
\* awaits call_next) to the router, which matches a route or none.
Receive(r, route, base) ==
    /\ phase = "serve"
    /\ reqs[r].pc = "idle"
    /\ reqs' = [reqs EXCEPT ![r] =
                  [pc |-> IF route = NoRoute \/ route.endpoint = 0
                          THEN "outer" ELSE "deps",
                   route |-> route, base |-> base,
                   resp |-> [headers |-> base, exc |-> "none", log |-> << >>,
                            result |-> NoResult],
                   pending |-> Len(app.user_middleware)]]
    /\ UNCHANGED <<funcs, app, routes, phase, raised, call>>

\* The dependencies of the endpoint are solved.
SolveDependencies(r) ==
    /\ reqs[r].pc = "deps"
    /\ Advance(r, solve_dependencies(reqs[r].resp, funcs, reqs[r].route.endpoint),
               "endpoint")
    /\ UNCHANGED <<funcs, app, routes, phase, raised, call>>

\* The endpoint function runs: wrappers, innermost first, around the body.
CallEndpoint(r) ==
    /\ reqs[r].pc = "endpoint"
    /\ Advance(r, CallFunction(reqs[r].resp, funcs, reqs[r].route.endpoint),
               IF reqs[r].route.route_class = LifecycleAPIRoute
               THEN "route" ELSE "outer")
    /\ UNCHANGED <<funcs, app, routes, phase, raised, call>>

\* LifecycleAPIRoute: custom_route_handler resumes after the original handler.
RouteHandler(r) ==
    /\ reqs[r].pc = "route"
    /\ Advance(r, custom_route_handler(reqs[r].resp, funcs, reqs[r].route), "outer")
    /\ UNCHANGED <<funcs, app, routes, phase, raised, call>>

\* Mutant: the middleware keeps the matched route on itself, so a dispatch
\* that resumes reads the route of whichever request is in flight.
DispatchSharedRoute(r) ==
    /\ reqs[r].pc = "outer"
    /\ reqs[r].pending > 0
    /\ \E q \in DOMAIN reqs :
          /\ reqs[q].pc # "idle"
          /\ AdvanceOuter(r, dispatch(reqs[r].resp, funcs, reqs[q].route))
    /\ UNCHANGED <<funcs, app, routes, phase, raised, call>>

\* VersioningMiddleware.dispatch resumes after call_next, once per entry of
\* the middleware list.
Dispatch(r) ==
    /\ reqs[r].pc = "outer"
    /\ reqs[r].pending > 0
    /\ AdvanceOuter(r, dispatch(reqs[r].resp, funcs, reqs[r].route))
    /\ UNCHANGED <<funcs, app, routes, phase, raised, call>>

\* The response is sent.
Send(r) ==
    /\ reqs[r].pc = "outer"
    /\ reqs[r].pending = 0
    /\ reqs' = [reqs EXCEPT ![r].pc = "done"]
    /\ UNCHANGED <<funcs, app, routes, phase, raised, call>>

Next ==
    \/ \E i \in 1..Len(Kinds) : \E config \in ConfigPool(Kinds[i]) :
         Attach(Kinds[i], config)
    \/ \E method \in Methods : Setup(method)
    \/ SetupRouteClass
    \/ \E endpoint \in {0, Len(funcs)} : Register(endpoint)
    \/ StartServing
    \/ \E r \in RequestIds : \E route \in {NoRoute} \cup {routes[i] : i \in 1..Len(routes)} :
         \E base \in BaseHeaders : Receive(r, route, base)
    \/ \E r \in RequestIds : SolveDependencies(r)
    \/ \E r \in RequestIds : CallEndpoint(r)
    \/ \E r \in RequestIds : RouteHandler(r)
    \/ \E r \in RequestIds : Dispatch(r)
    \/ \E r \in RequestIds : Send(r)

Spec == Init /\ [][Next]_vars

(***************************************************************************)
(* Direct calls of validate_config and inject_headers: every record made   *)
(* of the field values below, on every response below.                     *)
(***************************************************************************)
Absent == [t |-> "absent"]

DeprecatedAtValues ==
    {Absent, None, Str(T_2024_01_15_Z), Str(T_2015_10_21_OFFSET), D_2025_12_31,
     Str(T_NOT_A_DATE), Str(T_EMPTY), IntVal(0)}

SunsetAtValues ==
    {Absent, None, Str(T_2024_06_15_Z), Str(T_2024_02_29), Str(T_MONTH_13)}

MigrationUrlValues == {Absent, None, Str(T_EMPTY), Str(T_URL)}

VersionValues == {Absent, None, Str(T_EMPTY), Str(T_V1), IntVal(0), IntVal(2)}

ReplacementValues == {Absent, Str(T_EMPTY), Str(T_REPLACEMENT)}

ReasonValues == {Absent, None, Str(T_REASON)}

\* The dict holding the keys whose value is not Absent.
DictOf(c) == Dict([k \in {k2 \in ConfigKeys : c[k2] # Absent} |-> c[k]])

MakeConfig(d, s, u, v, rp, rs) ==
    DictOf([k \in ConfigKeys |->
              CASE k = DEPRECATED_AT -> d
                [] k = SUNSET_AT -> s
                [] k = MIGRATION_URL -> u
                [] k = VERSION -> v
                [] k = REPLACEMENT -> rp
                [] k = REASON -> rs])

CallConfigs ==
    {MakeConfig(d, s, u, v, rp, rs) :
        d \in DeprecatedAtValues, s \in SunsetAtValues, u \in MigrationUrlValues,
        v \in VersionValues, rp \in ReplacementValues, rs \in ReasonValues}
    \cup {NotADict}

CallResponses ==
    {[n \in {"content-type"} |-> T_JSON],
     [n \in {"content-type", H_LINK} |-> IF n = H_LINK THEN T_STALE ELSE T_JSON],
     [n \in {H_SUNSET, H_VERSION} |-> IF n = H_SUNSET THEN T_STALE ELSE T_EMPTY]}

Unchecked == [exc |-> "unchecked", field |-> "none"]

InitInject ==
    /\ funcs = <<PlainFunction(TRUE, FALSE, "none")>>
    /\ app = [user_middleware |-> << >>, route_class |-> APIRoute]
    /\ routes = << >>
    /\ phase = "define"
    /\ reqs = [r \in RequestIds |-> IdleRequest]
    /\ raised = [op |-> "none", exc |-> "none", field |-> "none"]
    /\ call \in {[pc |-> "new", config |-> c, pre |-> h, post |-> h,
                  valid |-> Unchecked, exc |-> "none", once |-> Returned(h)] :
                    c \in CallConfigs, h \in CallResponses}

\* validate_config(config)
CallValidate ==
    /\ call.pc = "new"
    /\ call' = [call EXCEPT !.pc = "checked", !.valid = validate_config(call.config)]
    /\ UNCHANGED <<funcs, app, routes, phase, reqs, raised>>

Injected(r) == call' = [call EXCEPT !.pc = "injected", !.post = r.headers, !.exc = r.exc]

\* inject_headers(response, config), on a record validated or not
CallInject ==
    /\ call.pc \in {"new", "checked"}
    /\ Injected(inject_headers(call.pre, call.config))
    /\ UNCHANGED <<funcs, app, routes, phase, reqs, raised>>

\* inject_headers(response, config) again, on the response the first call
\* left; once keeps what the first call left.
InjectedAgain(r) ==
    call' = [call EXCEPT !.pc = "reinjected",
                         !.once = [headers |-> call.post, exc |-> call.exc],
                         !.post = r.headers, !.exc = r.exc]

CallInjectAgain ==
    /\ call.pc = "injected"
    /\ InjectedAgain(inject_headers(call.post, call.config))
    /\ UNCHANGED <<funcs, app, routes, phase, reqs, raised>>

NextInject == CallValidate \/ CallInject \/ CallInjectAgain

SpecInject == InitInject /\ [][NextInject]_vars

(***************************************************************************)
(* Properties of inject_headers (SpecInject)                               *)
(***************************************************************************)
FieldOf(name) ==
    CASE name = H_DEPRECATION -> DEPRECATED_AT
      [] name = H_SUNSET -> SUNSET_AT
      [] name = H_LINK -> MIGRATION_URL
      [] name = H_VERSION -> VERSION
      [] name = H_REPLACEMENT -> REPLACEMENT
      [] name = H_REASON -> REASON

\* The value the table of header injection gives a header for a field value.
TableValue(name, v) ==
    IF name \in {H_DEPRECATION, H_SUNSET} THEN format_http_date(v).val
    ELSE IF name = H_LINK THEN create_link_header(PyStr(v))
    ELSE PyStr(v)

HTTP_2024_01_15 ==
    <<"M", "o", "n", ",", " ", "1", "5", " ", "J", "a", "n", " ", "2", "0", "2",
      "4", " ", "0", "0", ":", "0", "0", ":", "0", "0", " ", "G", "M", "T">>

HTTP_2015_10_21 ==
    <<"W", "e", "d", ",", " ", "2", "1", " ", "O", "c", "t", " ", "2", "0", "1",
      "5", " ", "0", "7", ":", "2", "8", ":", "0", "0", " ", "G", "M", "T">>

LINK_T_URL ==
    <<"<", "h", "t", "t", "p", "s", ":", "/", "/", "a", ".", "b", "/", "m", ">",
      ";", " ", "r", "e", "l", "=", "\"", "d", "e", "p", "r", "e", "c", "a", "t",
      "i", "o", "n", "\"">>

\* The examples of the documentation, as literal header values.
TableExamples(items, post) ==
    /\ DictGet(items, DEPRECATED_AT) = Str(T_2024_01_15_Z)
         => post[H_DEPRECATION] = HTTP_2024_01_15
    /\ DictGet(items, DEPRECATED_AT) = Str(T_2015_10_21_OFFSET)
         => post[H_DEPRECATION] = HTTP_2015_10_21
    /\ DictGet(items, MIGRATION_URL) = Str(T_URL) => post[H_LINK] = LINK_T_URL
    /\ DictGet(items, VERSION) = IntVal(2) => post[H_VERSION] = <<"2">>

InjectedValid ==
    /\ call.pc = "injected"
    /\ call.valid = Accepted

\* C1 (as amended): after inject_headers on a record accepted by validation,
\* the call has returned and every lifecycle header whose field is present
\* and truthy (not None, not an empty string, not zero) is set to the value
\* of the table: the HTTP-date, the link relation, or the string form.
C1_TruthyFieldsInjected ==
    InjectedValid =>
        /\ call.exc = "none"
        /\ \A name \in LifecycleHeaders :
              Truthy(DictGet(call.config.items, FieldOf(name))) =>
                  /\ name \in DOMAIN call.post
                  /\ call.post[name] = TableValue(name, call.config.items[FieldOf(name)])
        /\ TableExamples(call.config.items, call.post)

\* C1 witness: a validated record with all six fields truthy was injected and
\* the response carries all six lifecycle headers.
C1_Witness ==
    /\ InjectedValid
    /\ \A k \in ConfigKeys : Truthy(DictGet(call.config.items, k))
    /\ LifecycleHeaders \subseteq DOMAIN call.post
    /\ call.post[H_DEPRECATION] = HTTP_2024_01_15

\* C1 as stated: every lifecycle header whose field is present and non-null,
\* empty strings and other falsy values included, is set to the table value.
C1_NonNullFieldsInjected ==
    InjectedValid =>
        \A name \in LifecycleHeaders :
            (/\ FieldOf(name) \in DOMAIN call.config.items
             /\ call.config.items[FieldOf(name)] # None) =>
                /\ name \in DOMAIN call.post
                /\ call.post[name] = TableValue(name, call.config.items[FieldOf(name)])

\* A header is written by the call when it is on the response afterwards and
\* was not, or not with that value, before.
Written(name) ==
    /\ name \in DOMAIN call.post
    /\ name \notin DOMAIN call.pre \/ call.post[name] # call.pre[name]

FieldMissing(name) ==
    \/ ~call.config.isdict
    \/ FieldOf(name) \notin DOMAIN call.config.items
    \/ call.config.items[FieldOf(name)] = None

\* C2: inject_headers, on any record and whether it returns or raises, leaves
\* every header outside the six lifecycle names and every lifecycle header
\* whose field is absent or None as it was (value or absence), and writes no
\* lifecycle header with an empty value.
C2_InjectFrame ==
    call.pc = "injected" =>
        /\ \A name \in (DOMAIN call.pre) \cup (DOMAIN call.post) :
              (name \notin LifecycleHeaders \/ FieldMissing(name)) => ~Written(name)
        /\ DOMAIN call.pre \subseteq DOMAIN call.post
        /\ \A name \in LifecycleHeaders : Written(name) => Len(call.post[name]) > 0

\* C2 witness: a call wrote X-API-Version, on a response that had a Link
\* header and a record without migration_url but with an empty replacement;
\* Link kept its value and X-API-Replacement stayed off the response.
C2_Witness ==
    /\ call.pc = "injected"
    /\ call.config.isdict
    /\ Written(H_VERSION)
    /\ H_LINK \in DOMAIN call.pre /\ MIGRATION_URL \notin DOMAIN call.config.items
    /\ call.post[H_LINK] = call.pre[H_LINK]
    /\ DictGet(call.config.items, REPLACEMENT) = Str(T_EMPTY)
    /\ H_REPLACEMENT \notin DOMAIN call.post

(***************************************************************************)
(* Properties of attachment and setup (Spec)                               *)
(***************************************************************************)
UnparseableText(v) == v.t = "str" /\ ~isoparse(ReplaceZ(v.s)).ok

BadDateFields(config) ==
    IF ~config.isdict THEN {}
    ELSE {k \in {DEPRECATED_AT, SUNSET_AT} \cap DOMAIN config.items :
            UnparseableText(config.items[k])}

C4_ServingNeverRaises ==
    \A r \in RequestIds : reqs[r].resp.exc = "none" /\ reqs[r].pc # "failed"

\* C4 witness: a response was sent whose Deprecation header was formatted from
\* the date text of an attached record at response time.
C4_Witness ==
    \E r \in RequestIds :
        /\ reqs[r].pc = "done"
        /\ Len(reqs[r].resp.log) > 0
        /\ H_DEPRECATION \in DOMAIN reqs[r].resp.headers
        /\ reqs[r].resp.headers[H_DEPRECATION] = HTTP_2024_01_15

WrapperKinds == [i \in 2..Len(funcs) |-> funcs[i].config_attr]

DistinctKinds == \A i, j \in 2..Len(funcs) : i # j => WrapperKinds[i] # WrapperKinds[j]

Outermost == funcs[Len(funcs)]

KindOfAttr(attr) == CHOOSE k \in KindSet : ConfigAttr(k) = attr

Returns(configs, kind, config) ==
    \E j \in 1..Len(configs) : configs[j].kind = kind /\ configs[j].config = config

\* C5: while the kinds attached so far are distinct, get_endpoint_configs of
\* the outermost function object returns, for each attachment made, the record
\* given to it under its kind.
C5_AttachmentCumulative ==
    DistinctKinds =>
        \A i \in 2..Len(funcs) :
            Returns(get_endpoint_configs(Outermost),
                    KindOfAttr(funcs[i].config_attr), funcs[i].config)

\* C5 witness: the three kinds are stacked on one handler, versioned first and
\* deprecated last, and the outermost function returns three records.
C5_Witness ==
    /\ Len(funcs) = 4
    /\ DistinctKinds
    /\ funcs[2].config_attr = ConfigAttr("versioned")
    /\ funcs[4].config_attr = ConfigAttr("deprecated")
    /\ Len(get_endpoint_configs(Outermost)) = 3

\* C9: setup_versioning with a name that is none of the three raises
\* ValueError and leaves the middleware list and the route class as they were.
C9_UnknownMethodRejected ==
    [][\A method \in Methods \ {"middleware", "route_class", "manual"} :
          Setup(method) =>
              /\ app' = app
              /\ raised' = [op |-> "setup", exc |-> "ValueError", field |-> "none"]
              /\ phase' = "aborted"]_vars

\* C9 witness: the setup failed on an application that already had the
\* middleware and the route class of earlier setups, and still has them.
C9_Witness ==
    /\ raised = [op |-> "setup", exc |-> "ValueError", field |-> "none"]
    /\ app.user_middleware = <<VersioningMiddleware>>
    /\ app.route_class = LifecycleAPIRoute

(***************************************************************************)
(* The whole pipeline of one request as a function of the application, the *)
(* function objects, the matched route and the headers the response        *)
(* starts with: the steps SolveDependencies, CallEndpoint, RouteHandler    *)
(* and Dispatch composed.                                                  *)
(***************************************************************************)
FreshApp == [user_middleware |-> << >>, route_class |-> APIRoute]

StartResponse(base) ==
    [headers |-> base, exc |-> "none", log |-> << >>, result |-> NoResult]

RouteStage(resp, F, route) ==
    IF resp.exc = "none" /\ route.route_class = LifecycleAPIRoute
    THEN custom_route_handler(resp, F, route)
    ELSE resp

RECURSIVE DispatchAll(_, _, _, _)
DispatchAll(resp, F, route, n) ==
    IF n = 0 \/ resp.exc # "none" THEN resp
    ELSE DispatchAll(dispatch(resp, F, route), F, route, n - 1)

Serve(a, F, route, base) ==
    IF route = NoRoute \/ route.endpoint = 0
    THEN DispatchAll(StartResponse(base), F, route, Len(a.user_middleware))
    ELSE DispatchAll(RouteStage(RunEndpoint(StartResponse(base), F, route.endpoint),
                                F, route),
                     F, route, Len(a.user_middleware))

\* The application set up with one method, then the handler registered.
RouteIn(a, f) == [endpoint |-> f, route_class |-> a.route_class]

ServeIn(a, F, f, base) == Serve(a, F, RouteIn(a, f), base)

ServeUnder(method, F, f, base) ==
    ServeIn(setup_versioning(FreshApp, method).app, F, f, base)

\* The lifecycle headers of a response.
Lifecycle(headers) == [n \in (DOMAIN headers) \cap LifecycleHeaders |-> headers[n]]

\* The composed pipeline is the one the steps take.
ServeIsTheSteps ==
    \A r \in RequestIds :
        reqs[r].pc = "done" => reqs[r].resp = Serve(app, funcs, reqs[r].route, reqs[r].base)

(***************************************************************************)
(* Properties of serving (Spec)                                            *)
(***************************************************************************)
Done(r) == reqs[r].pc = "done"

EndpointOf(r) == reqs[r].route.endpoint

Served(r) == Done(r) /\ reqs[r].route # NoRoute /\ EndpointOf(r) # 0

\* A trigger looked up the records of the handler that served the request.
Triggered(r) ==
    \E i \in 1..Len(reqs[r].resp.log) :
        /\ reqs[r].resp.log[i].func = EndpointOf(r)
        /\ reqs[r].resp.log[i].by \in {"middleware", "route", "dependency"}

RecordsOf(r) == get_endpoint_configs(funcs[EndpointOf(r)])

\* The handler that served the request carries no configuration attribute.
Unconfigured(r) == DOMAIN funcs[EndpointOf(r)].attrs = {}

TruthyInSome(configs, key) ==
    \E j \in 1..Len(configs) :
        configs[j].config.isdict /\ Truthy(DictGet(configs[j].config.items, key))

NonNullInSome(configs, key) ==
    \E j \in 1..Len(configs) :
        /\ configs[j].config.isdict
        /\ key \in DOMAIN configs[j].config.items
        /\ configs[j].config.items[key] # None

HTTP_2024_06_15 ==
    <<"S", "a", "t", ",", " ", "1", "5", " ", "J", "u", "n", " ", "2", "0", "2",
      "4", " ", "0", "0", ":", "0", "0", ":", "0", "0", " ", "G", "M", "T">>

C7_NoConfigNoHeaders ==
    \A r \in RequestIds :
        (Served(r) /\ Unconfigured(r)) => reqs[r].resp.headers = reqs[r].base

\* C7 witness: the dependency, the route class and the middleware each looked
\* up a handler without records, and the response was sent as it started.
C7_Witness ==
    \E r \in RequestIds :
        /\ Served(r) /\ Unconfigured(r)
        /\ {reqs[r].resp.log[i].by : i \in 1..Len(reqs[r].resp.log)}
              = {"dependency", "body", "route", "middleware"}
        /\ reqs[r].resp.headers = reqs[r].base

\* C8: for every handler that opts in to the dependency, the lifecycle headers
\* of the response are the same under "middleware", "route_class" and
\* "manual".
C8_StrategiesAgree ==
    \A f \in FuncIds : \A base \in BaseHeaders :
        funcs[f].dep # "none" =>
            /\ Lifecycle(ServeUnder("middleware", funcs, f, base).headers)
                 = Lifecycle(ServeUnder("route_class", funcs, f, base).headers)
            /\ Lifecycle(ServeUnder("middleware", funcs, f, base).headers)
                 = Lifecycle(ServeUnder("manual", funcs, f, base).headers)

NoHandler(r) == reqs[r].route = NoRoute \/ EndpointOf(r) = 0

\* C10: a dispatch step for a request without route, or whose route has no
\* endpoint, and a dependency step of a handler that passes no endpoint_func,
\* leave the response as it is and raise nothing.
C10_NoHandlerNoOp ==
    [][\A r \in RequestIds :
          /\ (Dispatch(r) /\ NoHandler(r)) =>
                 reqs'[r].resp = reqs[r].resp /\ reqs'[r].pc = "outer"
          /\ (SolveDependencies(r) /\ funcs[EndpointOf(r)].dep = "noref") =>
                 reqs'[r].resp = reqs[r].resp /\ reqs'[r].pc = "endpoint"]_vars

\* C10 witness: the middleware processed the response of a request that
\* matched no route, and the response was sent as it started.
C10_Witness ==
    \E r \in RequestIds :
        /\ Done(r) /\ reqs[r].route = NoRoute
        /\ Len(app.user_middleware) > 0
        /\ reqs[r].resp = StartResponse(reqs[r].base)

(***************************************************************************)
(* Properties of the wrappers (Spec)                                       *)
(***************************************************************************)
\* The plain function under the wrappers of f.
RECURSIVE Innermost(_, _)
Innermost(F, f) == IF F[f].wrapped = 0 THEN f ELSE Innermost(F, F[f].wrapped)

WrapperEntries(r) ==
    {i \in 1..Len(reqs[r].resp.log) : reqs[r].resp.log[i].by = "wrapper"}

BodyEntries(r) ==
    {i \in 1..Len(reqs[r].resp.log) : reqs[r].resp.log[i].by = "body"}

ConventionKept ==
    /\ \A f \in FuncIds :
          funcs[f].coroutine = funcs[Innermost(funcs, f)].coroutine
    /\ \A r \in RequestIds :
          Served(r) =>
              /\ reqs[r].resp.result = Value(Innermost(funcs, EndpointOf(r)))
              /\ Cardinality(BodyEntries(r)) = 1
              /\ \A i \in WrapperEntries(r) : \A j \in BodyEntries(r) : j < i

\* C11: every function object an attachment returns is a coroutine function
\* exactly when the plain handler under it is, through any number of stacked
\* attachments, and no later step changes that; a served request ran the
\* body of the plain handler once, to completion, before any wrapper
\* injected, and the call returned the value of that body.
C11_CallingConventionKept ==
    /\ []ConventionKept
    /\ [][\A f \in FuncIds : funcs'[f].coroutine = funcs[f].coroutine]_vars

\* C11 witness: a coroutine handler taking the response, under three stacked
\* wrappers, served a request: its body ran first, then the three wrappers
\* injected, and the value of the body came back.
C11_Witness ==
    \E r \in RequestIds :
        /\ Served(r)
        /\ funcs[EndpointOf(r)].coroutine
        /\ EndpointOf(r) = 4
        /\ Cardinality(WrapperEntries(r)) = 3
        /\ reqs[r].resp.result = Value(1)

(***************************************************************************)
(* How often a request is looked up and injected (Spec)                    *)
(***************************************************************************)
\* The lookups made for request r by the given site.
LookupsBy(r, who) ==
    {i \in 1..Len(reqs[r].resp.log) : reqs[r].resp.log[i].by = who}

Lookups(r) ==
    {i \in 1..Len(reqs[r].resp.log) : reqs[r].resp.log[i].by # "body"}

\* The number of wrappers stacked on the plain function under f.
RECURSIVE Depth(_, _)
Depth(F, f) == IF F[f].wrapped = 0 THEN 0 ELSE 1 + Depth(F, F[f].wrapped)

\* C12 (as amended): each injection site that is in place looks up and
\* injects exactly once per served request, and always for the handler the
\* site belongs to: each VersioningMiddleware entry once, the lifecycle
\* route class once, the dependency once when it was given the handler, and
\* each wrapper stacked on a handler that takes the response object once,
\* for the function it wraps.  The lookups of one request are the sum of
\* these, which is more than one when several sites are in place.
C12_OncePerSite ==
    \A r \in RequestIds :
        Served(r) =>
            /\ Cardinality(LookupsBy(r, "middleware")) = Len(app.user_middleware)
            /\ Cardinality(LookupsBy(r, "route"))
                  = (IF reqs[r].route.route_class = LifecycleAPIRoute THEN 1 ELSE 0)
            /\ Cardinality(LookupsBy(r, "dependency"))
                  = (IF funcs[EndpointOf(r)].dep = "ref" THEN 1 ELSE 0)
            /\ Cardinality(LookupsBy(r, "wrapper"))
                  = (IF funcs[EndpointOf(r)].response_param
                     THEN Depth(funcs, EndpointOf(r)) ELSE 0)
            /\ \A i \in Lookups(r) :
                  IF reqs[r].resp.log[i].by = "wrapper"
                  THEN \A j \in LookupsBy(r, "wrapper") :
                          reqs[r].resp.log[j].func = reqs[r].resp.log[i].func => j = i
                  ELSE reqs[r].resp.log[i].func = EndpointOf(r)

\* C12 witness: a request served by a handler that takes the response
\* object, under three wrappers, with the dependency, the lifecycle route
\* class and the middleware in place, was looked up six times.
C12_Witness ==
    \E r \in RequestIds :
        /\ Served(r)
        /\ Cardinality(LookupsBy(r, "wrapper")) = 3
        /\ Cardinality(LookupsBy(r, "middleware")) = 1
        /\ Cardinality(LookupsBy(r, "route")) = 1
        /\ Cardinality(LookupsBy(r, "dependency")) = 1
        /\ Cardinality(Lookups(r)) = 6

\* C12 as stated: a request served by a handler with attached configuration
\* is looked up and injected exactly once.
C12_ExactlyOncePerRequest ==
    \A r \in RequestIds :
        (Served(r) /\ ~Unconfigured(r)) => Cardinality(Lookups(r)) = 1

(***************************************************************************)
(* Records once attached (Spec)                                            *)
(***************************************************************************)
\* The record get_endpoint_configs returns for a kind on a function object,
\* or NotADict when it returns none for that kind.
RecordOf(fobj, kind) ==
    IF \E i \in 1..Len(get_endpoint_configs(fobj)) :
           get_endpoint_configs(fobj)[i].kind = kind
    THEN (CHOOSE e \in {get_endpoint_configs(fobj)[i] :
                           i \in 1..Len(get_endpoint_configs(fobj))} :
              e.kind = kind).config
    ELSE NotADict

HasRecord(fobj, kind) ==
    \E i \in 1..Len(get_endpoint_configs(fobj)) :
        get_endpoint_configs(fobj)[i].kind = kind

\* C13: once a function object has a record for a kind, no step (another
\* attachment of any kind, a setup, a lookup, an injection, serving) changes
\* the record get_endpoint_configs returns for that kind on it.
C13_RecordsImmutable ==
    [][\A f \in FuncIds : \A kind \in KindSet :
          HasRecord(funcs[f], kind) =>
              /\ HasRecord(funcs'[f], kind)
              /\ RecordOf(funcs'[f], kind) = RecordOf(funcs[f], kind)]_vars

(***************************************************************************)
(* Requests served concurrently: an application with two handlers, each    *)
(* with a validated record attached, registered on two routes, and         *)
(* MaxConcurrent requests whose steps interleave freely.  Every step of    *)
(* the pipeline is a point where another request may run; the code         *)
(* suspends only at some of them (the awaits of call_next and of the       *)
(* handler).                                                               *)
(***************************************************************************)
ConcurrentIds == 1..MaxConcurrent

\* h1 with a deprecated record, then h2 with a record of kind2.
TwoHandlers(h1, c1, h2, kind2, c2) ==
    lifecycle_decorator(
        Append(lifecycle_decorator(<<h1>>, ConfigAttr("deprecated"), c1, 1).funcs, h2),
        ConfigAttr(kind2), c2, 3).funcs

ValidPool(kind) == {c \in ConfigPool(kind) : validate_config(c).exc = "none"}

ConcurrentApps ==
    {FreshApp,
     setup_versioning(FreshApp, "middleware").app,
     setup_versioning(FreshApp, "route_class").app,
     setup_versioning(setup_versioning_with_route_class(FreshApp), "middleware").app}

InitConcurrent ==
    /\ \E h1 \in Handlers : \E h2 \in Handlers :
         \E c1 \in ValidPool("deprecated") :
           \E kind2 \in {"sunset", "versioned"} : \E c2 \in ValidPool(kind2) :
              funcs = TwoHandlers(h1, c1, h2, kind2, c2)
    /\ app \in ConcurrentApps
    /\ routes = <<RouteIn(app, 2), RouteIn(app, 4)>>
    /\ phase = "serve"
    /\ reqs = [r \in ConcurrentIds |-> IdleRequest]
    /\ raised = [op |-> "none", exc |-> "none", field |-> "none"]
    /\ call = NoCall

NextConcurrent ==
    \/ \E r \in ConcurrentIds :
         \E route \in {NoRoute} \cup {routes[i] : i \in 1..Len(routes)} :
           \E base \in BaseHeaders : Receive(r, route, base)
    \/ \E r \in ConcurrentIds : SolveDependencies(r)
    \/ \E r \in ConcurrentIds : CallEndpoint(r)
    \/ \E r \in ConcurrentIds : RouteHandler(r)
    \/ \E r \in ConcurrentIds : Dispatch(r)
    \/ \E r \in ConcurrentIds : Send(r)

SpecConcurrent == InitConcurrent /\ [][NextConcurrent]_vars

(***************************************************************************)
(* Properties of concurrent serving (SpecConcurrent)                       *)
(***************************************************************************)
\* The response the request gets when it is served alone.
ServedAlone(r) == Serve(app, funcs, reqs[r].route, reqs[r].base)

IsolatedResponses ==
    \A r \in ConcurrentIds :
        Done(r) => reqs[r].resp.headers = ServedAlone(r).headers

\* C14: under every interleaving of the steps of concurrently served
\* requests, each response that is sent carries exactly the headers the
\* request gets when served alone, which depend only on its own route's
\* handler and its own starting headers, and every step changes the
\* response of one request only.
C14_RequestsIndependent ==
    /\ []IsolatedResponses
    /\ [][\A r \in ConcurrentIds :
            reqs'[r] # reqs[r] =>
                \A q \in ConcurrentIds \ {r} : reqs'[q] = reqs[q]]_vars

\* C14 witness: two requests for different handlers, both past their
\* endpoint and one of them already sent while the other still waits for
\* the middleware, carry different lifecycle headers.
C14_Witness ==
    /\ Served(1)
    /\ reqs[2].pc = "outer" /\ reqs[2].pending > 0
    /\ EndpointOf(1) = 2 /\ EndpointOf(2) = 4
    /\ H_DEPRECATION \in DOMAIN reqs[1].resp.headers
    /\ H_DEPRECATION \notin DOMAIN reqs[2].resp.headers
    /\ H_SUNSET \in DOMAIN reqs[2].resp.headers

(***************************************************************************)
(* Several records setting one header (Spec)                               *)
(***************************************************************************)
\* The record of the kind on the function object sets the header of key.
SetsField(fobj, kind, key) ==
    /\ HasAttr(fobj, ConfigAttr(kind))
    /\ fobj.attrs[ConfigAttr(kind)].isdict
    /\ Truthy(DictGet(fobj.attrs[ConfigAttr(kind)].items, key))

SettingKinds(fobj, key) == {kind \in KindSet : SetsField(fobj, kind, key)}

\* versioned before sunset before deprecated.
WinnerKind(fobj, key) ==
    IF SetsField(fobj, "versioned", key) THEN "versioned"
    ELSE IF SetsField(fobj, "sunset", key) THEN "sunset"
    ELSE "deprecated"

WinnerValue(fobj, name) ==
    TableValue(name,
               fobj.attrs[ConfigAttr(WinnerKind(fobj, FieldOf(name)))].items[FieldOf(name)])

\* The function object of the last lookup made for the request.
LastLookup(r) ==
    reqs[r].resp.log[CHOOSE i \in Lookups(r) : \A j \in Lookups(r) : j <= i].func

HTTP_2025_12_31 ==
    <<"W", "e", "d", ",", " ", "3", "1", " ", "D", "e", "c", " ", "2", "0", "2",
      "5", " ", "2", "3", ":", "5", "9", ":", "5", "9", " ", "G", "M", "T">>

\* C15: one lookup-and-inject of the records of a function object, as the
\* handlers are defined, leaves every header that at least one of its records sets with the value of the
\* versioned record if that one sets it, otherwise of the sunset record if
\* that one sets it, otherwise of the deprecated record, whatever the order
\* in which the kinds were attached; and a served response has, for every
\* header the records of its last lookup set, that value.
C15_LaterKindWins ==
    /\ \A name \in LifecycleHeaders :
          (phase = "define" /\ SettingKinds(funcs[Len(funcs)], FieldOf(name)) # {}) =>
              \A base \in BaseHeaders :
                  LookupAndInject(StartResponse(base), funcs, Len(funcs), "lookup")
                      .headers[name] = WinnerValue(funcs[Len(funcs)], name)
    /\ \A r \in RequestIds :
          (Served(r) /\ Lookups(r) # {}) =>
              \A name \in LifecycleHeaders :
                  SettingKinds(funcs[LastLookup(r)], FieldOf(name)) # {} =>
                      /\ name \in DOMAIN reqs[r].resp.headers
                      /\ reqs[r].resp.headers[name]
                            = WinnerValue(funcs[LastLookup(r)], name)

\* C15 witness: versioned, sunset and deprecated records were attached in
\* that order, all three set Sunset and two set the reason; the response the
\* middleware injected carries the Sunset and the reason of the versioned
\* record.
C15_Witness ==
    \E r \in RequestIds :
        /\ Served(r)
        /\ EndpointOf(r) = 4
        /\ funcs[2].config_attr = ConfigAttr("versioned")
        /\ funcs[3].config_attr = ConfigAttr("sunset")
        /\ funcs[4].config_attr = ConfigAttr("deprecated")
        /\ Cardinality(SettingKinds(funcs[4], SUNSET_AT)) = 3
        /\ LookupsBy(r, "middleware") # {}
        /\ reqs[r].resp.headers[H_SUNSET] = HTTP_2025_12_31
        /\ reqs[r].resp.headers[H_REASON] = T_REASON2

(***************************************************************************)
(* Outcomes of an attachment (Spec)                                        *)
(***************************************************************************)
\* C16: an attachment either succeeds or fails with the configuration
\* error, ValueError: no attachment, whatever its record, ends with another
\* exception.
C16_OnlyConfigurationErrors ==
    raised.op = "attach" => raised.exc = "ValueError"

(***************************************************************************)
(* Injecting twice (SpecInject, and Spec for a handler's records)          *)
(***************************************************************************)
\* C17: a second inject_headers with the same record, on the response the
\* first call left, ends as the first did (returning or raising the same
\* exception) and leaves every header, name and value, as the first left
\* it; this for every record, validated or not, and every response.
C17_InjectIdempotent ==
    call.pc = "reinjected" =>
        /\ call.post = call.once.headers
        /\ call.exc = call.once.exc

\* C17 witness: a record setting all six headers was injected twice into a
\* response that had a Link header; the first call replaced it and the
\* second left the six as they were.
C17_Witness ==
    /\ call.pc = "reinjected"
    /\ H_LINK \in DOMAIN call.pre
    /\ LifecycleHeaders \subseteq DOMAIN call.post
    /\ call.post[H_LINK] = LINK_T_URL
    /\ call.pre[H_LINK] # call.post[H_LINK]
    /\ call.once.headers = call.post

\* Looking up and injecting the records of the last lookup once more leaves
\* a served response with the headers it has (Spec).
LookupTwiceIsOnce ==
    \A r \in RequestIds :
        (Served(r) /\ Lookups(r) # {}) =>
            LookupAndInject(reqs[r].resp, funcs, LastLookup(r), "again").headers
                = reqs[r].resp.headers

====
